---- MODULE Spec2Model ----
(***************************************************************************)
(* A model of src/lib.rs: the owning references RcReference/ArcReference  *)
(* generated by the macro `implementation!`, the multiple-reference        *)
(* contexts, and the crate's tests that run them on several threads.       *)
(*                                                                         *)
(* An owning reference is the pair (inner, ptr): a counted handle to the   *)
(* owner allocation and a raw address into the owner's data.  The model    *)
(* keeps the counted allocation (strong count, reclamation, the memory the *)
(* owner's value occupies) and every handle of the program in a table of   *)
(* handle slots.  A read goes through the raw address into the memory, so  *)
(* a read after reclamation is visible as such.                            *)
(***************************************************************************)
EXTENDS Integers, Sequences, FiniteSets, TLC

VARIABLES
    h,         \* handle slots: slot -> empty | plain counted handle | owning reference
    strong,    \* owner -> strong count of its allocation
    reclaims,  \* owner -> number of times its allocation was reclaimed
    heap,      \* address -> cell of memory (the owners' values, or freed)
    borrow,    \* the outstanding borrow of a counted handle: source() result or a context
    ev,        \* what the last step returned or ran (a read's value, a projection run)
    kind,      \* "Rc" or "Arc": which instance of the macro the program uses
    marks,     \* type parameter (O, R) -> the marker traits (Send, Sync) it implements
    pc,        \* thread -> location, for the tests
    arrived,   \* threads that reached the Barrier
    out        \* thread -> the string format! has written so far

vars == <<h, strong, reclaims, heap, borrow, ev, kind, marks, pc, arrived, out>>

(***************************************************************************)
(* Bounds of the model.                                                    *)
(***************************************************************************)
\* Number of handle slots of the free-running program (Spec).
MaxHandles == 3

(***************************************************************************)
(* The owners of the tests and their values.                               *)
(***************************************************************************)
\* String::from("Hello World!"), one cell per character.
\* Each cell carries its type as the field name: a byte of a string, a u8, a
\* u32, a String field.
Chars(s) == [i \in 1 .. Len(s) |-> [char |-> s[i]]]

HelloWorld == Chars(<<"H", "e", "l", "l", "o", " ", "W", "o", "r", "l", "d", "!">>)

\* Foo { a: 42, b: 1024, c: String::from("Foo") }, one cell per field.
Foo == <<[u8 |-> 42], [u32 |-> 1024], [String |-> "Foo"]>>

OwnerValue(o) == IF o = "string" THEN HelloWorld ELSE Foo

\* Where an owner's value lives.  The block is stable once allocated.
Base(o) == IF o = "string" THEN 100 ELSE 200

OwnerAddrs(o) == Base(o) .. (Base(o) + Len(OwnerValue(o)) - 1)

\* The projections the tests use: &string[0..5], &string[6..11] and the
\* fields &value.a, &value.b, &value.c, each as the range <<from, to>> of cells.
Projections(o) ==
    IF o = "string" THEN {<<0, 5>>, <<6, 11>>}
    ELSE {<<0, 1>>, <<1, 2>>, <<2, 3>>}

\* The value p(O) of a projection of the owner's value.
Target(o, p) == SubSeq(OwnerValue(o), p[1] + 1, p[2])

\* A variant of AddressOf that starts at the end of the range.
AddressOf_FromEnd(o, p) == [addr |-> Base(o) + p[2], len |-> p[2] - p[1]]

\* `f(&inner) as *const R`: the address (and extent) of the projected part.
AddressOf(o, p) == [addr |-> Base(o) + p[1], len |-> p[2] - p[1]]

(***************************************************************************)
(* Handles.                                                                *)
(***************************************************************************)
NoHandle == [kind |-> "none"]

\* An Rc<O> / Arc<O> held directly.  `from` is not stored by the program: it
\* tells a handle cloned from the borrow source() returned ("source") from one
\* made by Rc::new or cloned from a handle held directly ("plain").
Plain(o, from) == [kind |-> "plain", owner |-> o, from |-> from]

\* struct $reference_name { inner, ptr }: owner and from are the handle
\* `inner`.  Two fields the program does not store are kept for the
\* properties: `made`, the value the projection had at construction, and
\* `by`, the operation that built this reference.
Reference(inner, ptr, made, by) ==
    [kind |-> "ref", owner |-> inner.owner, from |-> inner.from,
     ptr |-> ptr, made |-> made, by |-> by]

Slots == DOMAIN h
Owners == DOMAIN strong

IsFree(s) == h[s].kind = "none"
IsPlain(s) == h[s].kind = "plain"
IsRef(s) == h[s].kind = "ref"
IsLive(s) == h[s].kind # "none"

\* Where a new handle is put: the first free slot.
IsNextFree(d) == IsFree(d) /\ \A s \in Slots : IsFree(s) => d <= s

\* Every live handle to owner o, plain or inside an owning reference.
HandlesTo(o) == {s \in Slots : IsLive(s) /\ h[s].owner = o}
ReferencesTo(o) == {s \in Slots : IsRef(s) /\ h[s].owner = o}

NoBorrow == [kind |-> "none"]
NoEvent == [op |-> "none"]

\* A slot whose handle is borrowed cannot be moved or dropped.
IsBorrowed(s) == borrow.kind # "none" /\ borrow.slot = s

(***************************************************************************)
(* The counted allocation (std Rc / Arc), as the code uses it.             *)
(***************************************************************************)
Freed == [freed |-> TRUE]
Garbage == [garbage |-> TRUE]

\* `self.inner.clone()`: one more strong handle.
IncStrong(o) == [strong EXCEPT ![o] = @ + 1]

\* The drop of a counted handle: one strong handle fewer.
DecStrong(o) == [strong EXCEPT ![o] = @ - 1]

\* The last drop runs the owner's destructor and frees its memory.
HeapAfterDrop(o) ==
    IF DecStrong(o)[o] = 0
    THEN [a \in DOMAIN heap |-> IF a \in OwnerAddrs(o) THEN Freed ELSE heap[a]]
    ELSE heap

ReclaimsAfterDrop(o) ==
    IF DecStrong(o)[o] = 0 THEN [reclaims EXCEPT ![o] = @ + 1] ELSE reclaims

\* What `&*self.ptr.as_ptr()` can yield.  Reading memory that was freed is
\* undefined: the stale value or anything else.
PtrAddrs(ptr) == ptr.addr .. (ptr.addr + ptr.len - 1)

Load(ptr) == [i \in 1 .. ptr.len |-> heap[ptr.addr + i - 1]]

Dangling(ptr) == \E a \in PtrAddrs(ptr) : a \notin DOMAIN heap \/ heap[a] = Freed

ReadOutcomes(s) ==
    IF Dangling(h[s].ptr)
    THEN {h[s].made, [i \in 1 .. h[s].ptr.len |-> Garbage]}
    ELSE {Load(h[s].ptr)}

(***************************************************************************)
(* The operations of the macro `implementation!`.                          *)
(***************************************************************************)
\* A variant of new that stores a clone of the handle and leaks the original.
new_Cloning(s, p) ==
    /\ h' = [h EXCEPT ![s] = Reference(h[s], AddressOf(h[s].owner, p),
                                      Target(h[s].owner, p), "new")]
    /\ strong' = IncStrong(h[s].owner)
    /\ ev' = [op |-> "new", runs |-> 1]
    /\ UNCHANGED <<reclaims, heap>>

\* A variant of new that keeps the address but lets go of the handle.
new_DropsHandle(s, p) ==
    /\ h' = [h EXCEPT ![s] = Reference(h[s], AddressOf(h[s].owner, p),
                                      Target(h[s].owner, p), "new")]
    /\ strong' = DecStrong(h[s].owner)
    /\ heap' = HeapAfterDrop(h[s].owner)
    /\ reclaims' = ReclaimsAfterDrop(h[s].owner)
    /\ ev' = [op |-> "new", runs |-> 1]

\* $reference_name::new(inner, f): the handle in slot s is moved into the
\* result, the projection p runs once on it.
new(s, p) ==
    /\ h' = [h EXCEPT ![s] = Reference(h[s], AddressOf(h[s].owner, p),
                                      Target(h[s].owner, p), "new")]
    /\ ev' = [op |-> "new", runs |-> 1]
    /\ UNCHANGED <<strong, reclaims, heap>>

\* A variant of clone that copies the handle bitwise, without counting it.
clone_NoIncrement(r, d) ==
    /\ h' = [h EXCEPT ![d] = Reference(Plain(h[r].owner, "plain"), h[r].ptr, h[r].made, "clone")]
    /\ ev' = NoEvent
    /\ UNCHANGED <<strong, reclaims, heap>>

\* A variant of clone whose address is that of the owner, not of the target.
clone_PtrToOwner(r, d) ==
    /\ h' = [h EXCEPT ![d] = Reference(Plain(h[r].owner, "plain"),
                                      [addr |-> Base(h[r].owner), len |-> h[r].ptr.len],
                                      h[r].made, "clone")]
    /\ strong' = IncStrong(h[r].owner)
    /\ ev' = NoEvent
    /\ UNCHANGED <<reclaims, heap>>

\* Clone::clone of the owning reference in slot r, into the free slot d.
clone(r, d) ==
    /\ h' = [h EXCEPT ![d] = Reference(Plain(h[r].owner, "plain"), h[r].ptr, h[r].made, "clone")]
    /\ strong' = IncStrong(h[r].owner)
    /\ ev' = NoEvent
    /\ UNCHANGED <<reclaims, heap>>

\* A variant of source that returns a clone of the inner handle.
source_Cloning(r) ==
    /\ borrow' = [kind |-> "source", slot |-> r]
    /\ strong' = IncStrong(h[r].owner)
    /\ ev' = NoEvent
    /\ UNCHANGED <<h, reclaims, heap>>

\* source(&self) -> &$rc_type<O>: a borrow of the inner handle.
source(r) ==
    /\ borrow' = [kind |-> "source", slot |-> r]
    /\ ev' = NoEvent
    /\ UNCHANGED <<h, strong, reclaims, heap>>

\* A variant of deref that takes the value out and leaves blanks behind.
deref_Taking(r) ==
    /\ \E v \in ReadOutcomes(r) : ev' = [op |-> "deref", slot |-> r, val |-> v]
    /\ heap' = [a \in DOMAIN heap |-> IF a \in PtrAddrs(h[r].ptr) THEN [char |-> " "] ELSE heap[a]]
    /\ UNCHANGED <<h, strong, reclaims>>

\* Deref::deref (and as_ref, Display::fmt, Debug::fmt, which go through it).
deref(r) ==
    /\ \E v \in ReadOutcomes(r) : ev' = [op |-> "deref", slot |-> r, val |-> v]
    /\ UNCHANGED <<h, strong, reclaims, heap>>

\* A variant of new_reference that copies the context's handle uncounted.
new_reference_NoIncrement(c, p, d) ==
    /\ h' = [h EXCEPT ![d] = Reference(Plain(h[c].owner, "plain"), AddressOf(h[c].owner, p),
                                      Target(h[c].owner, p), "new_reference")]
    /\ ev' = NoEvent
    /\ UNCHANGED <<strong, reclaims, heap>>

\* A variant of new_reference that points at the owner's first cell.
new_reference_FirstCell(c, p, d) ==
    /\ h' = [h EXCEPT ![d] = Reference(Plain(h[c].owner, "plain"),
                                      [addr |-> Base(h[c].owner), len |-> p[2] - p[1]],
                                      Target(h[c].owner, p), "new_reference")]
    /\ strong' = IncStrong(h[c].owner)
    /\ ev' = NoEvent
    /\ UNCHANGED <<reclaims, heap>>

\* A variant of new_reference that clones the handle twice and leaks one.
new_reference_CountsTwice(c, p, d) ==
    /\ h' = [h EXCEPT ![d] = Reference(Plain(h[c].owner, "plain"), AddressOf(h[c].owner, p),
                                      Target(h[c].owner, p), "new_reference")]
    /\ strong' = [strong EXCEPT ![h[c].owner] = @ + 2]
    /\ ev' = NoEvent
    /\ UNCHANGED <<reclaims, heap>>

\* $context_name::new_reference(&self, r): the context borrows the handle in
\* slot c; the new reference goes to the free slot d.
new_reference(c, p, d) ==
    /\ h' = [h EXCEPT ![d] = Reference(Plain(h[c].owner, "plain"), AddressOf(h[c].owner, p),
                                      Target(h[c].owner, p), "new_reference")]
    /\ strong' = IncStrong(h[c].owner)
    /\ ev' = NoEvent
    /\ UNCHANGED <<reclaims, heap>>

\* A variant of the context that holds a clone of the handle.
context_Cloning(c) ==
    /\ borrow' = [kind |-> "context", slot |-> c]
    /\ strong' = IncStrong(h[c].owner)
    /\ ev' = NoEvent
    /\ UNCHANGED <<h, reclaims, heap>>

\* $context_name { inner: &arc }, built by $multiple_method_name for the
\* call of the body: a borrow of the handle in slot c.
context(c) ==
    /\ borrow' = [kind |-> "context", slot |-> c]
    /\ ev' = NoEvent
    /\ UNCHANGED <<h, strong, reclaims, heap>>

(***************************************************************************)
(* The operations of std on a counted handle.                              *)
(***************************************************************************)
\* Rc::clone / Arc::clone of the handle in slot s, or of the inner handle
\* of the reference in slot s that source() lent.
RcClone(s, d) ==
    /\ h' = [h EXCEPT ![d] = Plain(h[s].owner, IF IsRef(s) THEN "source" ELSE "plain")]
    /\ strong' = IncStrong(h[s].owner)
    /\ ev' = NoEvent
    /\ UNCHANGED <<reclaims, heap>>

\* A move of the handle or reference in slot s to the free slot d, as into
\* a closure, a tuple or a function: the fields are copied, nothing is
\* cloned or dropped.
move(s, d) ==
    /\ h' = [h EXCEPT ![d] = h[s], ![s] = NoHandle]
    /\ ev' = NoEvent
    /\ UNCHANGED <<strong, reclaims, heap>>

\* A variant of drop that forgets the handle instead of releasing it.
drop_Forget(s) ==
    /\ h' = [h EXCEPT ![s] = NoHandle]
    /\ ev' = NoEvent
    /\ UNCHANGED <<strong, reclaims, heap>>

\* A variant of drop that gives up the owner's memory at once, whatever the
\* count.
drop_Freeing(s) ==
    /\ h' = [h EXCEPT ![s] = NoHandle]
    /\ strong' = DecStrong(h[s].owner)
    /\ heap' = [a \in DOMAIN heap |-> IF a \in OwnerAddrs(h[s].owner) THEN Freed ELSE heap[a]]
    /\ reclaims' = ReclaimsAfterDrop(h[s].owner)
    /\ ev' = NoEvent

\* The drop of what slot s holds: a plain handle, or an owning reference,
\* whose drop is the drop of its field `inner` (ptr has no destructor).
drop(s) ==
    /\ h' = [h EXCEPT ![s] = NoHandle]
    /\ strong' = DecStrong(h[s].owner)
    /\ heap' = HeapAfterDrop(h[s].owner)
    /\ reclaims' = ReclaimsAfterDrop(h[s].owner)
    /\ ev' = NoEvent

(***************************************************************************)
(* The marker traits Send and Sync, as the compiler decides them for an    *)
(* instance $reference_name<O, R> from the traits of O and R.              *)
(***************************************************************************)
Markers == {"Send", "Sync"}

\* String, str, Foo and its fields: the types of the tests are Send and Sync.
TestMarks == [p \in {"O", "R"} |-> Markers]

\* std: Rc<T> is neither Send nor Sync; Arc<T> is Send, and is Sync, when T
\* is both Send and Sync.
HandleIs(k, m, t) == k = "Arc" /\ Markers \subseteq m["O"]

\* std: &R is Send when R is Sync, and Sync when R is Sync.
RefIs(m, t) == "Sync" \in m["R"]

\* std: NonNull<R> is neither Send nor Sync.
NonNullIs(m, t) == FALSE

\* Without an impl of its own a struct has a marker trait when all its
\* fields have it: inner: $rc_type<O> and ptr: NonNull<R>.
AutoIs(k, m, t) == HandleIs(k, m, t) /\ NonNullIs(m, t)

\* A variant of the impl of Send without its where clause.
SendImpl_Unconditional(m) == TRUE

\* unsafe impl Send for ArcReference<O, R> where Arc<O>: Send, &R: Send
SendImpl(m) == HandleIs("Arc", m, "Send") /\ RefIs(m, "Send")

\* unsafe impl Sync for ArcReference<O, R> where Arc<O>: Sync, &R: Sync
SyncImpl(m) == HandleIs("Arc", m, "Sync") /\ RefIs(m, "Sync")

\* Whether $reference_name<O, R> of family k has the marker trait t: by its
\* impl where the crate writes one (ArcReference), by its fields otherwise
\* (RcReference).
ReferenceIs(k, m, t) ==
    IF k = "Arc"
    THEN (IF t = "Send" THEN SendImpl(m) ELSE SyncImpl(m))
    ELSE AutoIs(k, m, t)

(***************************************************************************)
(* Spec: the operations in any order on the slots.                         *)
(***************************************************************************)
InitialHeap(os) ==
    [a \in UNION {OwnerAddrs(o) : o \in os} |->
        LET o == CHOOSE x \in os : a \in OwnerAddrs(x)
        IN  OwnerValue(o)[a - Base(o) + 1]]

\* The counted allocation right after `Rc::new(value)` of owner o.
Allocated(o) ==
    /\ strong = [x \in {o} |-> 1]
    /\ reclaims = [x \in {o} |-> 0]
    /\ heap = InitialHeap({o})

\* After `let rc = Rc::new(String::from("Hello World!"))`: one owner, one
\* plain handle to it.
Init ==
    /\ kind = "Rc"
    /\ marks = TestMarks
    /\ h = [s \in 1 .. MaxHandles |-> IF s = 1 THEN Plain("string", "plain") ELSE NoHandle]
    /\ Allocated("string")
    /\ borrow = NoBorrow
    /\ ev = NoEvent
    /\ pc = <<>>
    /\ arrived = {}
    /\ out = <<>>

Frame == UNCHANGED <<kind, marks, pc, arrived, out>>

CallNew ==
    \E s \in Slots :
        /\ IsPlain(s)
        /\ ~IsBorrowed(s)
        /\ \E p \in Projections(h[s].owner) : new(s, p)
        /\ UNCHANGED borrow
        /\ Frame

CallClone ==
    \E r, d \in Slots :
        /\ IsRef(r)
        /\ IsNextFree(d)
        /\ clone(r, d)
        /\ UNCHANGED borrow
        /\ Frame

CallSource ==
    \E r \in Slots :
        /\ IsRef(r)
        /\ borrow = NoBorrow
        /\ source(r)
        /\ Frame

CallDeref ==
    \E r \in Slots :
        /\ IsRef(r)
        /\ deref(r)
        /\ UNCHANGED borrow
        /\ Frame

\* rc_multiple(arc, f) / arc_multiple(arc, f) up to the call of the body:
\* `$context_name { inner: &arc }` borrows the handle in slot c.
MultipleEnter ==
    \E c \in Slots :
        /\ IsLive(c)
        /\ borrow = NoBorrow \/ (borrow.kind = "source" /\ borrow.slot = c)
        /\ context(c)
        /\ Frame

\* The body derives a reference.
CallNewReference ==
    \E d \in Slots :
        /\ borrow.kind = "context"
        /\ IsNextFree(d)
        /\ \E p \in Projections(h[borrow.slot].owner) : new_reference(borrow.slot, p, d)
        /\ UNCHANGED borrow
        /\ Frame

\* The body returns: the context is discarded with the borrow.
MultipleReturn ==
    /\ borrow.kind = "context"
    /\ borrow' = NoBorrow
    /\ ev' = NoEvent
    /\ UNCHANGED <<h, strong, reclaims, heap>>
    /\ Frame

\* `rc.clone()` on a plain handle, or on the handle source() lent.
CallRcClone ==
    \E s, d \in Slots :
        /\ IsPlain(s) \/ (IsRef(s) /\ borrow = [kind |-> "source", slot |-> s])
        /\ IsNextFree(d)
        /\ RcClone(s, d)
        /\ UNCHANGED borrow
        /\ Frame

\* The borrow source() returned ends.
EndBorrow ==
    /\ borrow.kind = "source"
    /\ borrow' = NoBorrow
    /\ ev' = NoEvent
    /\ UNCHANGED <<h, strong, reclaims, heap>>
    /\ Frame

CallDrop ==
    \E s \in Slots :
        /\ IsLive(s)
        /\ ~IsBorrowed(s)
        /\ drop(s)
        /\ UNCHANGED borrow
        /\ Frame

Next ==
    \/ CallNew
    \/ CallClone
    \/ CallSource
    \/ CallDeref
    \/ MultipleEnter
    \/ CallNewReference
    \/ MultipleReturn
    \/ CallRcClone
    \/ EndBorrow
    \/ CallDrop

Spec == Init /\ [][Next]_vars

(***************************************************************************)
(* SpecMoves: Spec, with moves of the handles between the slots.           *)
(***************************************************************************)
CallMove ==
    \E s, d \in Slots :
        /\ IsLive(s)
        /\ ~IsBorrowed(s)
        /\ IsNextFree(d)
        /\ move(s, d)
        /\ UNCHANGED borrow
        /\ Frame

NextMoves ==
    \/ Next
    \/ CallMove

SpecMoves == Init /\ [][NextMoves]_vars

(***************************************************************************)
(* SpecSiblings: the operations that make, move and drop handles and       *)
(* references, in any order on the slots.                                  *)
(***************************************************************************)
NextSiblings ==
    \/ CallNew
    \/ CallClone
    \/ CallRcClone
    \/ MultipleEnter
    \/ CallNewReference
    \/ MultipleReturn
    \/ CallMove
    \/ CallDrop

SpecSiblings == Init /\ [][NextSiblings]_vars

(***************************************************************************)
(* SpecScope: a scope that builds, clones, derives and drops handles and   *)
(* references, and ends.  At its end the values still alive are dropped,   *)
(* one after the other; the language runs every one of these drops, which  *)
(* is the fairness of the specification.                                   *)
(***************************************************************************)
InitScope ==
    /\ kind = "Rc"
    /\ marks = TestMarks
    /\ h = [s \in 1 .. MaxHandles |-> IF s = 1 THEN Plain("string", "plain") ELSE NoHandle]
    /\ Allocated("string")
    /\ borrow = NoBorrow
    /\ ev = NoEvent
    /\ pc = [t \in {"main"} |-> "body"]
    /\ arrived = {}
    /\ out = <<>>

\* The body of the scope: any operation that makes or drops a handle.
ScopeBody ==
    /\ pc["main"] = "body"
    /\ \/ CallNew
       \/ CallClone
       \/ CallRcClone
       \/ MultipleEnter
       \/ CallNewReference
       \/ MultipleReturn
       \/ CallDrop

\* The end of the scope is reached, with no call in progress.
ScopeEnd ==
    /\ pc["main"] = "body"
    /\ borrow = NoBorrow
    /\ pc' = [pc EXCEPT !["main"] = "exit"]
    /\ ev' = NoEvent
    /\ UNCHANGED <<h, strong, reclaims, heap, borrow, kind, marks, arrived, out>>

\* The drop of a value that is alive at the end of the scope.
ScopeDrop ==
    /\ pc["main"] = "exit"
    /\ CallDrop

NextScope ==
    \/ ScopeBody
    \/ ScopeEnd
    \/ ScopeDrop

SpecScope == InitScope /\ [][NextScope]_vars /\ WF_vars(ScopeDrop)

(***************************************************************************)
(* SpecThreaded: the test `threaded`.  Main builds hello and world, clones *)
(* them for the threads a and b, and moves the original handle to thread   *)
(* c; a and b format their clones after the barrier, c drops the handle    *)
(* before it.                                                              *)
(***************************************************************************)
\* Barrier::new(3)
BarrierSize == 3

ThreadedSlots == {"arc", "hello", "world", "a.hello", "a.world", "b.hello", "b.world"}

Readers == {"a", "b"}

\* The body of the test, one operation per entry.
MainProgram ==
    << [op |-> "RcClone", from |-> "arc", to |-> "hello"],
       [op |-> "new", slot |-> "hello", proj |-> <<0, 5>>],
       [op |-> "RcClone", from |-> "arc", to |-> "world"],
       [op |-> "new", slot |-> "world", proj |-> <<6, 11>>],
       [op |-> "clone", from |-> "hello", to |-> "a.hello"],
       [op |-> "clone", from |-> "world", to |-> "a.world"],
       [op |-> "spawn", thread |-> "a"],
       [op |-> "clone", from |-> "hello", to |-> "b.hello"],
       [op |-> "clone", from |-> "world", to |-> "b.world"],
       [op |-> "spawn", thread |-> "b"],
       [op |-> "spawn", thread |-> "c"],
       [op |-> "join", thread |-> "a"],
       [op |-> "join", thread |-> "b"],
       [op |-> "join", thread |-> "c"],
       [op |-> "drop", slot |-> "world"],
       [op |-> "drop", slot |-> "hello"] >>

\* format!("{hello} {world}") in a, format!("{world} {hello}") in b: the
\* references in the order they are written.
FormatArgs(t) == IF t = "a" THEN <<"a.hello", "a.world">> ELSE <<"b.world", "b.hello">>

\* "Hello World" and "World Hello"
Expected(t) ==
    IF t = "a"
    THEN Chars(<<"H", "e", "l", "l", "o", " ", "W", "o", "r", "l", "d">>)
    ELSE Chars(<<"W", "o", "r", "l", "d", " ", "H", "e", "l", "l", "o">>)

InitThreaded ==
    /\ kind = "Arc"
    /\ marks = TestMarks
    /\ h = [s \in ThreadedSlots |-> IF s = "arc" THEN Plain("string", "plain") ELSE NoHandle]
    /\ Allocated("string")
    /\ borrow = NoBorrow
    /\ ev = NoEvent
    /\ pc = [t \in {"main", "a", "b", "c"} |-> IF t = "main" THEN 1 ELSE "unspawned"]
    /\ arrived = {}
    /\ out = [t \in Readers |-> <<>>]

Goto(t, l) == pc' = [pc EXCEPT ![t] = l]

AtMain(o) == pc["main"] \in DOMAIN MainProgram /\ MainProgram[pc["main"]].op = o
MainOp == MainProgram[pc["main"]]
MainAdvance == Goto("main", pc["main"] + 1)

\* arc.clone()
MainRcClone ==
    /\ AtMain("RcClone")
    /\ RcClone(MainOp.from, MainOp.to)
    /\ MainAdvance
    /\ UNCHANGED <<borrow, kind, marks, arrived, out>>

\* ArcReference::new(arc.clone(), |string| &string[..])
MainNew ==
    /\ AtMain("new")
    /\ new(MainOp.slot, MainOp.proj)
    /\ MainAdvance
    /\ UNCHANGED <<borrow, kind, marks, arrived, out>>

\* with_cloned!: let hello = hello.clone()
MainClone ==
    /\ AtMain("clone")
    /\ clone(MainOp.from, MainOp.to)
    /\ MainAdvance
    /\ UNCHANGED <<borrow, kind, marks, arrived, out>>

\* std::thread::spawn(move || ..)
MainSpawn ==
    /\ AtMain("spawn")
    /\ pc' = [pc EXCEPT !["main"] = @ + 1,
                        ![MainOp.thread] = IF MainOp.thread = "c" THEN "drop_arc" ELSE "wait"]
    /\ ev' = NoEvent
    /\ UNCHANGED <<h, strong, reclaims, heap, borrow, kind, marks, arrived, out>>

\* a.join().unwrap()
MainJoin ==
    /\ AtMain("join")
    /\ pc[MainOp.thread] = "done"
    /\ MainAdvance
    /\ ev' = NoEvent
    /\ UNCHANGED <<h, strong, reclaims, heap, borrow, kind, marks, arrived, out>>

\* The end of the test's scope: world, then hello.
MainDrop ==
    /\ AtMain("drop")
    /\ drop(MainOp.slot)
    /\ MainAdvance
    /\ UNCHANGED <<borrow, kind, marks, arrived, out>>

\* drop(arc) in thread c
DropArc ==
    /\ pc["c"] = "drop_arc"
    /\ drop("arc")
    /\ Goto("c", "wait")
    /\ UNCHANGED <<borrow, kind, marks, arrived, out>>

\* barrier.wait(): the thread arrives ...
Arrive(t) ==
    /\ pc[t] = "wait"
    /\ arrived' = arrived \cup {t}
    /\ Goto(t, "blocked")
    /\ ev' = NoEvent
    /\ UNCHANGED <<h, strong, reclaims, heap, borrow, kind, marks, out>>

\* ... and goes on when all have.
Pass(t) ==
    /\ pc[t] = "blocked"
    /\ Cardinality(arrived) = BarrierSize
    /\ Goto(t, IF t \in Readers THEN "fmt1" ELSE "done")
    /\ ev' = NoEvent
    /\ UNCHANGED <<h, strong, reclaims, heap, borrow, kind, marks, arrived, out>>

\* Display::fmt of the first and of the second argument of format!, with
\* the " " of the format string between them.
Format(t) ==
    /\ pc[t] \in {"fmt1", "fmt2"}
    /\ deref(FormatArgs(t)[IF pc[t] = "fmt1" THEN 1 ELSE 2])
    /\ out' = [out EXCEPT ![t] = IF pc[t] = "fmt1"
                                 THEN ev'.val \o Chars(<<" ">>)
                                 ELSE @ \o ev'.val]
    /\ Goto(t, IF pc[t] = "fmt1" THEN "fmt2" ELSE "assert")
    /\ UNCHANGED <<borrow, kind, marks, arrived>>

\* assert_eq!(format!(..), "Hello World")
AssertEq(t) ==
    /\ pc[t] = "assert"
    /\ Goto(t, IF out[t] = Expected(t) THEN "exit" ELSE "panicked")
    /\ ev' = NoEvent
    /\ UNCHANGED <<h, strong, reclaims, heap, borrow, kind, marks, arrived, out>>

\* The closure returns (or unwinds): its captured clones are dropped.
ReaderDrop(t) ==
    /\ pc[t] \in {"exit", "panicked"}
    /\ \E i \in 1 .. 2 :
        /\ IsLive(FormatArgs(t)[i])
        /\ drop(FormatArgs(t)[i])
    /\ UNCHANGED <<pc, borrow, kind, marks, arrived, out>>

ReaderDone(t) ==
    /\ pc[t] = "exit"
    /\ \A i \in 1 .. 2 : IsFree(FormatArgs(t)[i])
    /\ Goto(t, "done")
    /\ ev' = NoEvent
    /\ UNCHANGED <<h, strong, reclaims, heap, borrow, kind, marks, arrived, out>>

NextThreaded ==
    \/ MainRcClone
    \/ MainNew
    \/ MainClone
    \/ MainSpawn
    \/ MainJoin
    \/ MainDrop
    \/ DropArc
    \/ \E t \in {"a", "b", "c"} : Arrive(t)
    \/ \E t \in {"a", "b", "c"} : Pass(t)
    \/ \E t \in Readers : Format(t)
    \/ \E t \in Readers : AssertEq(t)
    \/ \E t \in Readers : ReaderDrop(t)
    \/ \E t \in Readers : ReaderDone(t)

SpecThreaded == InitThreaded /\ [][NextThreaded]_vars

(***************************************************************************)
(* SpecMultiple: the tests test_multiple_rc and test_multiple_arc.  One    *)
(* run of rc_multiple / arc_multiple derives a, b and c, the original      *)
(* handle is dropped, and the three are read: by main in turn (Rc), or by  *)
(* one thread each (Arc).                                                  *)
(***************************************************************************)
MultipleSlots == {"foo", "a", "b", "c"}

FieldThreads == {"ta", "tb", "tc"}

\* &value.a, &value.b, &value.c
Field(s) == IF s = "a" THEN <<0, 1>> ELSE IF s = "b" THEN <<1, 2>> ELSE <<2, 3>>

\* The right-hand sides of assert_eq!(*a, 42), assert_eq!(*b, 1024),
\* assert_eq!(*c, "Foo").
Asserted(s) ==
    IF s = "a" THEN <<[u8 |-> 42]>>
    ELSE IF s = "b" THEN <<[u32 |-> 1024]>>
    ELSE <<[String |-> "Foo"]>>

\* let (a, b, c) = rc_multiple(&foo, |ctx, value| (..)); drop(foo);
Derivation ==
    << [op |-> "enter", slot |-> "foo"],
       [op |-> "new_reference", slot |-> "a"],
       [op |-> "new_reference", slot |-> "b"],
       [op |-> "new_reference", slot |-> "c"],
       [op |-> "return"],
       [op |-> "drop", slot |-> "foo"] >>

\* The rest of test_multiple_rc: the asserts, then the end of the scope.
RcRest ==
    << [op |-> "read", slot |-> "a"], [op |-> "assert", slot |-> "a"],
       [op |-> "read", slot |-> "b"], [op |-> "assert", slot |-> "b"],
       [op |-> "read", slot |-> "c"], [op |-> "assert", slot |-> "c"],
       [op |-> "drop", slot |-> "c"],
       [op |-> "drop", slot |-> "b"],
       [op |-> "drop", slot |-> "a"] >>

\* The rest of test_multiple_arc: a thread for each reference.
ArcRest ==
    << [op |-> "spawn", thread |-> "ta"],
       [op |-> "spawn", thread |-> "tb"],
       [op |-> "spawn", thread |-> "tc"],
       [op |-> "join", thread |-> "ta"],
       [op |-> "join", thread |-> "tb"],
       [op |-> "join", thread |-> "tc"] >>

\* std::thread::spawn(move || { assert_eq!(*a, 42); })
FieldThread(s) ==
    << [op |-> "read", slot |-> s], [op |-> "assert", slot |-> s], [op |-> "drop", slot |-> s] >>

Program(t) ==
    IF t = "main" THEN Derivation \o (IF kind = "Rc" THEN RcRest ELSE ArcRest)
    ELSE IF t = "ta" THEN FieldThread("a")
    ELSE IF t = "tb" THEN FieldThread("b")
    ELSE FieldThread("c")

\* pc[t]: 0 before the thread is spawned, the index of its next operation,
\* one past the last when it has returned, -1 when an assert failed.
At(t, o) == pc[t] \in DOMAIN Program(t) /\ Program(t)[pc[t]].op = o
Op(t) == Program(t)[pc[t]]
Advance(t) == pc' = [pc EXCEPT ![t] = @ + 1]
Returned(t) == pc[t] = Len(Program(t)) + 1

InitMultiple ==
    /\ kind \in {"Rc", "Arc"}
    /\ marks = TestMarks
    /\ h = [s \in MultipleSlots |-> IF s = "foo" THEN Plain("foo", "plain") ELSE NoHandle]
    /\ Allocated("foo")
    /\ borrow = NoBorrow
    /\ ev = NoEvent
    /\ pc = [t \in {"main"} \cup FieldThreads |-> IF t = "main" THEN 1 ELSE 0]
    /\ arrived = {}
    /\ out = [t \in {"main"} \cup FieldThreads |-> <<>>]

\* rc_multiple(&foo, f): the context borrows foo and the body starts.
OpEnter(t) ==
    /\ At(t, "enter")
    /\ borrow = NoBorrow
    /\ context(Op(t).slot)
    /\ Advance(t)
    /\ UNCHANGED <<kind, marks, arrived, out>>

\* ctx.new_reference(&value.a)
OpNewReference(t) ==
    /\ At(t, "new_reference")
    /\ borrow.kind = "context"
    /\ new_reference(borrow.slot, Field(Op(t).slot), Op(t).slot)
    /\ Advance(t)
    /\ UNCHANGED <<borrow, kind, marks, arrived, out>>

\* The body returns the tuple.
OpReturn(t) ==
    /\ At(t, "return")
    /\ borrow' = NoBorrow
    /\ ev' = NoEvent
    /\ Advance(t)
    /\ UNCHANGED <<h, strong, reclaims, heap, kind, marks, arrived, out>>

\* drop(foo), the end of a closure, the end of the test's scope
OpDrop(t) ==
    /\ At(t, "drop")
    /\ ~IsBorrowed(Op(t).slot)
    /\ drop(Op(t).slot)
    /\ Advance(t)
    /\ UNCHANGED <<borrow, kind, marks, arrived, out>>

OpSpawn(t) ==
    /\ At(t, "spawn")
    /\ pc' = [pc EXCEPT ![t] = @ + 1, ![Op(t).thread] = 1]
    /\ ev' = NoEvent
    /\ UNCHANGED <<h, strong, reclaims, heap, borrow, kind, marks, arrived, out>>

\* a.join().unwrap()
OpJoin(t) ==
    /\ At(t, "join")
    /\ Returned(Op(t).thread)
    /\ ev' = NoEvent
    /\ Advance(t)
    /\ UNCHANGED <<h, strong, reclaims, heap, borrow, kind, marks, arrived, out>>

\* *a: the left-hand side of the assert
OpRead(t) ==
    /\ At(t, "read")
    /\ deref(Op(t).slot)
    /\ out' = [out EXCEPT ![t] = ev'.val]
    /\ Advance(t)
    /\ UNCHANGED <<borrow, kind, marks, arrived>>

\* assert_eq!(*a, 42)
OpAssert(t) ==
    /\ At(t, "assert")
    /\ pc' = [pc EXCEPT ![t] = IF out[t] = Asserted(Op(t).slot) THEN @ + 1 ELSE -1]
    /\ ev' = NoEvent
    /\ UNCHANGED <<h, strong, reclaims, heap, borrow, kind, marks, arrived, out>>

NextMultiple ==
    \/ OpEnter("main")
    \/ OpNewReference("main")
    \/ OpReturn("main")
    \/ OpSpawn("main")
    \/ OpJoin("main")
    \/ \E t \in {"main"} \cup FieldThreads : OpDrop(t)
    \/ \E t \in {"main"} \cup FieldThreads : OpRead(t)
    \/ \E t \in {"main"} \cup FieldThreads : OpAssert(t)

SpecMultiple == InitMultiple /\ [][NextMultiple]_vars

(***************************************************************************)
(* SpecRun: runs of rc_multiple / arc_multiple whose body derives          *)
(* references and drops some of them before it returns the rest, between   *)
(* any operations on the handles outside the runs.                         *)
(***************************************************************************)
\* Nothing recorded of a run.
NoRun == [before |-> 0, minted |-> {}, calls |-> 0]

InitRun ==
    /\ kind = "Rc"
    /\ marks = TestMarks
    /\ h = [s \in 1 .. MaxHandles |-> IF s = 1 THEN Plain("string", "plain") ELSE NoHandle]
    /\ Allocated("string")
    /\ borrow = NoBorrow
    /\ ev = NoEvent
    /\ pc = [t \in {"main"} |-> "caller"]
    /\ arrived = {}
    /\ out = [t \in {"main"} |-> NoRun]

\* The caller's operations on its handles, outside a run.
RunOutside ==
    /\ pc["main"] = "caller"
    /\ CallNew \/ CallClone \/ CallRcClone \/ CallDrop

\* rc_multiple(&handle, f): the context is built and f is called with it.
\* Recorded for the properties: the count before, the calls of f.
RunEnter ==
    /\ pc["main"] = "caller"
    /\ borrow = NoBorrow
    /\ \E c \in Slots :
            /\ IsPlain(c)
            /\ context(c)
            /\ out' = [out EXCEPT !["main"] =
                            [before |-> strong[h[c].owner], minted |-> {}, calls |-> 1]]
    /\ pc' = [pc EXCEPT !["main"] = "body"]
    /\ UNCHANGED <<kind, marks, arrived>>

\* The body derives a reference.
RunDerive ==
    /\ pc["main"] = "body"
    /\ \E d \in Slots :
            /\ IsNextFree(d)
            /\ \E p \in Projections(h[borrow.slot].owner) : new_reference(borrow.slot, p, d)
            /\ out' = [out EXCEPT !["main"].minted = @ \cup {d}]
    /\ UNCHANGED <<borrow, kind, marks, pc, arrived>>

\* The body drops a reference it derived.
RunDrop ==
    /\ pc["main"] = "body"
    /\ \E s \in out["main"].minted :
            /\ drop(s)
            /\ out' = [out EXCEPT !["main"].minted = @ \ {s}]
    /\ UNCHANGED <<borrow, kind, marks, pc, arrived>>

\* f returns and rc_multiple returns what f returned: the references the
\* body derived and kept.  The context is gone with the call.
RunReturn ==
    /\ pc["main"] = "body"
    /\ borrow' = NoBorrow
    /\ ev' = [op |-> "multiple", result |-> out["main"].minted]
    /\ pc' = [pc EXCEPT !["main"] = "returned"]
    /\ UNCHANGED <<h, strong, reclaims, heap, kind, marks, arrived, out>>

\* The caller goes on with the result.
RunResume ==
    /\ pc["main"] = "returned"
    /\ pc' = [pc EXCEPT !["main"] = "caller"]
    /\ out' = [out EXCEPT !["main"] = NoRun]
    /\ ev' = NoEvent
    /\ UNCHANGED <<h, strong, reclaims, heap, borrow, kind, marks, arrived>>

NextRun ==
    \/ RunOutside
    \/ RunEnter
    \/ RunDerive
    \/ RunDrop
    \/ RunReturn
    \/ RunResume

SpecRun == InitRun /\ [][NextRun]_vars

(***************************************************************************)
(* SpecFormat: the tests `rc` and `arc`.  hello and world are built from   *)
(* clones of the handle and written by format!, each with Display ("{}")   *)
(* or Debug ("{:?}"); the slices and the traits are the inputs.            *)
(***************************************************************************)
FormatSlots == {"rc", "hello", "world"}

FormatTraits == {"Display", "Debug"}

\* "Hello World"
HelloWorldText == <<"H", "e", "l", "l", "o", " ", "W", "o", "r", "l", "d">>

\* The text of a str in memory: its characters (anything, for memory that
\* is not a string any more).
Text(v) == [i \in 1 .. Len(v) |-> IF "char" \in DOMAIN v[i] THEN v[i].char ELSE "?"]

\* <str as Display>::fmt writes the characters, <str as Debug>::fmt writes
\* them between quotes (none of "Hello World!" needs an escape).
TargetFmt(t, v) == IF t = "Display" THEN Text(v) ELSE <<"\"">> \o Text(v) \o <<"\"">>

\* A variant of the impls in which Debug, too, calls <R as Display>::fmt.
ReferenceFmt_AlwaysDisplay(t, v) == TargetFmt("Display", v)

\* Display::fmt and Debug::fmt of $reference_name, given what the deref of
\* `&self` read: <R as Display>::fmt(&self, f), <R as Debug>::fmt(&self, f).
ReferenceFmt(t, v) == TargetFmt(t, v)

\* The body of the tests, one operation per entry.
FormatProgram ==
    << [op |-> "RcClone", from |-> "rc", to |-> "hello"],
       [op |-> "new", slot |-> "hello"],
       [op |-> "RcClone", from |-> "rc", to |-> "world"],
       [op |-> "new", slot |-> "world"],
       [op |-> "format_args"],
       [op |-> "fmt", arg |-> 1],
       [op |-> "fmt", arg |-> 2],
       [op |-> "format_end"],
       [op |-> "assert"],
       [op |-> "drop", slot |-> "world"],
       [op |-> "drop", slot |-> "hello"],
       [op |-> "drop", slot |-> "rc"] >>

\* The pieces of "{hello} {world}": what is written before each argument.
FormatPieces == << <<>>, <<" ">> >>

InitFormat ==
    /\ kind \in {"Rc", "Arc"}
    /\ marks = TestMarks
    /\ h = [s \in FormatSlots |-> IF s = "rc" THEN Plain("string", "plain") ELSE NoHandle]
    /\ Allocated("string")
    /\ borrow = NoBorrow
    /\ ev = NoEvent
    /\ pc = [t \in {"main"} |-> 1]
    /\ arrived = {}
    /\ out = [t \in {"main"} |-> <<>>]

FormatAt(o) == pc["main"] \in DOMAIN FormatProgram /\ FormatProgram[pc["main"]].op = o
FormatOp == FormatProgram[pc["main"]]
FormatAdvance == pc' = [pc EXCEPT !["main"] = @ + 1]

\* rc.clone()
FormatRcClone ==
    /\ FormatAt("RcClone")
    /\ RcClone(FormatOp.from, FormatOp.to)
    /\ FormatAdvance
    /\ UNCHANGED <<borrow, kind, marks, arrived, out>>

\* RcReference::new(rc.clone(), |string| &string[..])
FormatNew ==
    /\ FormatAt("new")
    /\ \E p \in Projections("string") : new(FormatOp.slot, p)
    /\ FormatAdvance
    /\ UNCHANGED <<borrow, kind, marks, arrived, out>>

\* format!("{hello} {world}"): the arguments are borrowed, each with the
\* fmt of the trait its placeholder names.
FormatBegin ==
    /\ FormatAt("format_args")
    /\ \E t1, t2 \in FormatTraits :
            borrow' = [kind |-> "format",
                       args |-> << [slot |-> "hello", trait |-> t1],
                                   [slot |-> "world", trait |-> t2] >>]
    /\ ev' = NoEvent
    /\ FormatAdvance
    /\ UNCHANGED <<h, strong, reclaims, heap, kind, marks, arrived, out>>

\* The piece before an argument is written, then the fmt of the argument
\* writes what it formats.
FormatWrite ==
    /\ FormatAt("fmt")
    /\ deref(borrow.args[FormatOp.arg].slot)
    /\ out' = [out EXCEPT !["main"] =
                    @ \o FormatPieces[FormatOp.arg]
                      \o ReferenceFmt(borrow.args[FormatOp.arg].trait, ev'.val)]
    /\ FormatAdvance
    /\ UNCHANGED <<borrow, kind, marks, arrived>>

\* format! returns the String; the borrows of the arguments end.
FormatEnd ==
    /\ FormatAt("format_end")
    /\ borrow' = NoBorrow
    /\ ev' = [op |-> "format", args |-> borrow.args]
    /\ FormatAdvance
    /\ UNCHANGED <<h, strong, reclaims, heap, kind, marks, arrived, out>>

\* assert_eq!(format!("{hello} {world}"), "Hello World")
FormatAssert ==
    /\ FormatAt("assert")
    /\ pc' = [pc EXCEPT !["main"] = IF out["main"] = HelloWorldText THEN @ + 1 ELSE -1]
    /\ UNCHANGED <<h, strong, reclaims, heap, borrow, ev, kind, marks, arrived, out>>

\* The end of the test's scope: world, hello, rc.
FormatDrop ==
    /\ FormatAt("drop")
    /\ drop(FormatOp.slot)
    /\ FormatAdvance
    /\ UNCHANGED <<borrow, kind, marks, arrived, out>>

NextFormat ==
    \/ FormatRcClone
    \/ FormatNew
    \/ FormatBegin
    \/ FormatWrite
    \/ FormatEnd
    \/ FormatAssert
    \/ FormatDrop

SpecFormat == InitFormat /\ [][NextFormat]_vars

(***************************************************************************)
(* SpecMarkers: the compiler deciding, for an instance of either family    *)
(* and any marker traits of O and R, whether the owning reference may be   *)
(* moved to another thread (Send) or shared between threads (Sync).        *)
(***************************************************************************)
InitMarkers ==
    /\ kind \in {"Rc", "Arc"}
    /\ marks \in [{"O", "R"} -> SUBSET Markers]
    /\ h = <<>>
    /\ strong = <<>>
    /\ reclaims = <<>>
    /\ heap = <<>>
    /\ borrow = NoBorrow
    /\ ev = NoEvent
    /\ pc = <<>>
    /\ arrived = {}
    /\ out = [t \in Markers |-> "undecided"]

Answer(t) == IF ReferenceIs(kind, marks, t) THEN "yes" ELSE "no"

\* $reference_name<O, R>: Send is asked for, as by std::thread::spawn of a
\* closure that captures a reference.
RequireSend ==
    /\ out["Send"] = "undecided"
    /\ out' = [out EXCEPT !["Send"] = Answer("Send")]
    /\ UNCHANGED <<h, strong, reclaims, heap, borrow, ev, kind, marks, pc, arrived>>

\* $reference_name<O, R>: Sync is asked for, as by a closure that captures
\* a borrow of a reference.
RequireSync ==
    /\ out["Sync"] = "undecided"
    /\ out' = [out EXCEPT !["Sync"] = Answer("Sync")]
    /\ UNCHANGED <<h, strong, reclaims, heap, borrow, ev, kind, marks, pc, arrived>>

NextMarkers ==
    \/ RequireSend
    \/ RequireSync

SpecMarkers == InitMarkers /\ [][NextMarkers]_vars

(***************************************************************************)
(* Properties of Spec.                                                     *)
(***************************************************************************)
\* The memory of owner o is all there, as allocated.
Intact(o) == \A a \in OwnerAddrs(o) : a \in DOMAIN heap /\ heap[a] = OwnerValue(o)[a - Base(o) + 1]

\* The address of the reference in slot r is valid to read: inside its
\* owner's memory, none of it freed.
ValidTarget(r) ==
    /\ PtrAddrs(h[r].ptr) \subseteq OwnerAddrs(h[r].owner)
    /\ ~Dangling(h[r].ptr)

\* C1: while at least one handle to the owner is alive, plain or inside an
\* owning reference, the owner allocation has not been reclaimed and the
\* address of every live owning reference is valid to read.
C1_OwnerOutlivesHandles ==
    \A o \in Owners :
        HandlesTo(o) # {} =>
            /\ reclaims[o] = 0
            /\ Intact(o)
            /\ \A r \in ReferencesTo(o) : ValidTarget(r)

\* A reference derived through a context is the only handle left: every
\* plain handle is dropped.
C1_Witness ==
    \E o \in Owners : \E r \in ReferencesTo(o) :
        /\ h[r].by = "new_reference"
        /\ HandlesTo(o) = {r}
        /\ strong[o] = 1

\* C2: a read of a reference built by new, made when every other handle to
\* the owner has been dropped, yields the value the projection had at
\* construction.
C2_ReadAfterOriginDropped ==
    (ev.op = "deref" /\ h[ev.slot].by = "new" /\ HandlesTo(h[ev.slot].owner) = {ev.slot})
        => ev.val = h[ev.slot].made

\* The reference was built by new from a clone of the original handle (the
\* original sat in slot 1, which is free again), and is read.
C2_Witness ==
    /\ ev.op = "deref"
    /\ ev.slot # 1
    /\ h[ev.slot].by = "new"
    /\ h[ev.slot].from = "plain"
    /\ HandlesTo(h[ev.slot].owner) = {ev.slot}
    /\ ev.val = Target(h[ev.slot].owner, <<6, 11>>)

\* C3: the owner allocation is reclaimed exactly once, by the drop of the
\* last surviving handle: not reclaimed while a handle is alive, reclaimed
\* once (and not again) when none is.
C3_ReclaimedOnceAtLastDrop ==
    \A o \in Owners :
        /\ reclaims[o] = IF HandlesTo(o) = {} THEN 1 ELSE 0
        /\ (reclaims[o] = 1) <=> (strong[o] = 0)

\* Every handle has been dropped and the owner's memory is freed.
C3_Witness ==
    \E o \in Owners : HandlesTo(o) = {} /\ reclaims[o] = 1 /\ ~Intact(o)

\* C4: a read of a clone yields the value its original had, whether or not
\* the original is still alive, and the owner is reclaimed only when no
\* handle is left.
C4_CloneIndependent ==
    /\ (ev.op = "deref" /\ h[ev.slot].by = "clone") =>
            /\ ev.val = h[ev.slot].made
            /\ reclaims[h[ev.slot].owner] = 0
    /\ \A o \in Owners : reclaims[o] > 0 => HandlesTo(o) = {}

\* A clone is read after its original and every other handle were dropped.
C4_Witness ==
    /\ ev.op = "deref"
    /\ h[ev.slot].by = "clone"
    /\ HandlesTo(h[ev.slot].owner) = {ev.slot}

\* A step of source() on the reference in slot r.
SourceStep(r) == IsRef(r) /\ borrow = NoBorrow /\ source(r)

\* A step that clones the handle source() lent from slot r into slot d.
CloneLentStep(r, d) ==
    /\ IsRef(r)
    /\ borrow = [kind |-> "source", slot |-> r]
    /\ IsNextFree(d)
    /\ RcClone(r, d)

\* C7 as stated: each call of source() raises the owner's count by one.
C7_SourceRaisesCount ==
    [][\A r \in Slots : SourceStep(r) => strong'[h[r].owner] = strong[h[r].owner] + 1]_vars

\* C7, amended: source() lends the inner handle and leaves the count and
\* the handles as they are; each clone() of the lent handle is a new counted
\* handle to the same owner and raises the count by one; a handle so made
\* keeps the owner alive, also when it is the only handle left.
C7_SourceLendsInner ==
    /\ [][\A r \in Slots : SourceStep(r) =>
            /\ strong' = strong
            /\ h' = h
            /\ borrow'.slot = r]_vars
    /\ [][\A r, d \in Slots : CloneLentStep(r, d) =>
            /\ strong'[h[r].owner] = strong[h[r].owner] + 1
            /\ h'[d].kind = "plain"
            /\ h'[d].owner = h[r].owner
            /\ \A x \in Slots \ {d} : h'[x] = h[x]]_vars
    /\ [](\A s \in Slots : (IsPlain(s) /\ h[s].from = "source") =>
            /\ reclaims[h[s].owner] = 0
            /\ Intact(h[s].owner)
            /\ strong[h[s].owner] >= 1)

\* A handle cloned from source() is the only handle left: the reference it
\* came from is dropped.
C7_Witness ==
    \E s \in Slots :
        /\ IsPlain(s)
        /\ h[s].from = "source"
        /\ HandlesTo(h[s].owner) = {s}
        /\ strong[h[s].owner] = 1

\* C8: a reference built by new from a handle obtained through source(),
\* and a reference built by new whose original handle is dropped, read their
\* construction-time values whatever else was dropped, and the owner is
\* reclaimed only when no reference is left.
C8_Rederived ==
    /\ \A w \in Slots : (IsRef(w) /\ h[w].from = "source") =>
            /\ ValidTarget(w)
            /\ reclaims[h[w].owner] = 0
    /\ (/\ ev.op = "deref"
        /\ h[ev.slot].by = "new"
        /\ \/ h[ev.slot].from = "source"
           \/ \A s \in HandlesTo(h[ev.slot].owner) : IsRef(s)) =>
            ev.val = h[ev.slot].made
    /\ \A o \in Owners : reclaims[o] > 0 => ReferencesTo(o) = {}

\* `world`, built from hello.source().clone() on the other slice, is read
\* after `hello` and the original handle were dropped.
C8_Witness ==
    /\ ev.op = "deref"
    /\ h[ev.slot].by = "new"
    /\ h[ev.slot].from = "source"
    /\ HandlesTo(h[ev.slot].owner) = {ev.slot}
    /\ ev.val = Target("string", <<6, 11>>)

\* A step of new on the plain handle in slot s with projection p.
NewStep(s, p) == IsPlain(s) /\ ~IsBorrowed(s) /\ p \in Projections(h[s].owner) /\ new(s, p)

\* C9: new runs the projection once, on the handle it stores; the handle is
\* moved into the result, so the count and every other handle stay as they
\* are, and the address stored is where the projected part of that owner
\* lies.  new has no failing outcome: it can run on any handle held.
C9_NewMovesHandle ==
    /\ [][\A s \in Slots : IsPlain(s) => \A p \in Projections(h[s].owner) : NewStep(s, p) =>
            /\ strong' = strong
            /\ reclaims' = reclaims
            /\ h'[s].kind = "ref"
            /\ h'[s].owner = h[s].owner
            /\ PtrAddrs(h'[s].ptr) \subseteq OwnerAddrs(h[s].owner)
            /\ Load(h'[s].ptr) = Target(h[s].owner, p)
            /\ \A x \in Slots \ {s} : h'[x] = h[x]
            /\ ev'.runs = 1]_vars
    /\ [](\A s \in Slots : (IsPlain(s) /\ ~IsBorrowed(s)) => ENABLED CallNew)

\* new has just run and its reference is there.
C9_Witness ==
    /\ ev.op = "new"
    /\ ev.runs = 1
    /\ \E s \in Slots : IsRef(s) /\ h[s].by = "new" /\ strong[h[s].owner] = 1

\* A step of clone on the reference in slot r, into slot d.
CloneStep(r, d) == IsRef(r) /\ IsNextFree(d) /\ clone(r, d)

\* C10: clone raises the owner's count by exactly one and yields a reference
\* with the same owner and the same address; the original and every other
\* handle stay as they are, and nothing is reclaimed.  clone has no failing
\* outcome: it can run on any reference held.
C10_CloneCountsOnce ==
    /\ [][\A r, d \in Slots : CloneStep(r, d) =>
            /\ strong'[h[r].owner] = strong[h[r].owner] + 1
            /\ h'[d].kind = "ref"
            /\ h'[d].owner = h[r].owner
            /\ h'[d].ptr = h[r].ptr
            /\ \A x \in Slots \ {d} : h'[x] = h[x]
            /\ reclaims' = reclaims
            /\ heap' = heap]_vars
    /\ [](\A r, d \in Slots : (IsRef(r) /\ IsNextFree(d)) => ENABLED CallClone)

\* A clone and a reference with the same address are both alive.
C10_Witness ==
    \E r, d \in Slots :
        /\ r # d
        /\ IsRef(r)
        /\ IsRef(d)
        /\ h[d].by = "clone"
        /\ h[d].ptr = h[r].ptr
        /\ strong[h[r].owner] = 2

\* A step of new_reference on the context that borrows slot c, for the
\* sub-reference p, into slot d.
NewReferenceStep(c, p, d) ==
    /\ borrow = [kind |-> "context", slot |-> c]
    /\ IsNextFree(d)
    /\ p \in Projections(h[c].owner)
    /\ new_reference(c, p, d)

\* C13: every new_reference on a context raises the count of the context's
\* owner by exactly one and yields a reference to that owner whose address
\* is the address of the sub-reference passed in; every other handle, the
\* handle the context borrows included, stays as it is and nothing is
\* reclaimed.  So the references minted through a context are all handles
\* of the one allocation, each counted on its own.
C13_NewReferenceCountsOnce ==
    /\ [][borrow.kind = "context" =>
            \A d \in Slots : \A p \in Projections(h[borrow.slot].owner) :
                NewReferenceStep(borrow.slot, p, d) =>
                    /\ strong'[h[borrow.slot].owner] = strong[h[borrow.slot].owner] + 1
                    /\ h'[d].kind = "ref"
                    /\ h'[d].owner = h[borrow.slot].owner
                    /\ h'[d].ptr.addr = Base(h[borrow.slot].owner) + p[1]
                    /\ h'[d].ptr.len = p[2] - p[1]
                    /\ \A x \in Slots \ {d} : h'[x] = h[x]
                    /\ reclaims' = reclaims
                    /\ heap' = heap]_vars
    /\ [](\A r \in Slots : (IsRef(r) /\ h[r].by = "new_reference") =>
            /\ h[r].owner \in Owners
            /\ PtrAddrs(h[r].ptr) \subseteq OwnerAddrs(h[r].owner)
            /\ strong[h[r].owner] >= Cardinality({x \in Slots : IsRef(x) /\ h[x].by = "new_reference"}))

\* Two references to different parts were minted through the context that
\* is still open; each raised the count.
C13_Witness ==
    /\ borrow.kind = "context"
    /\ IsPlain(borrow.slot)
    /\ \E r, x \in Slots :
            /\ IsRef(r)
            /\ IsRef(x)
            /\ h[r].by = "new_reference"
            /\ h[x].by = "new_reference"
            /\ h[r].ptr # h[x].ptr
    /\ strong["string"] = 3

\* The plain handles to owner o.
PlainTo(o) == {s \in Slots : IsPlain(s) /\ h[s].owner = o}

\* C17: the count of an owner is the number of plain handles to it plus the
\* number of owning references to it, one for each, with nothing counted
\* for an open context or an outstanding borrow; so it is at least one
\* while a reference is alive.
C17_CountIsHandles ==
    \A o \in Owners :
        /\ strong[o] = Cardinality(PlainTo(o)) + Cardinality(ReferencesTo(o))
        /\ ReferencesTo(o) # {} => strong[o] >= 1

\* A context is open on a plain handle, with a reference built by new and a
\* reference minted through the context alive: three handles, count three.
C17_Witness ==
    /\ borrow.kind = "context"
    /\ IsPlain(borrow.slot)
    /\ \E r, x \in Slots :
            /\ IsRef(r) /\ h[r].by = "new"
            /\ IsRef(x) /\ h[x].by = "new_reference"
    /\ Cardinality(PlainTo("string")) = 1
    /\ strong["string"] = 3

(***************************************************************************)
(* Properties of SpecThreaded.                                             *)
(***************************************************************************)
\* C5: in every interleaving of the threads of `threaded`, no reference
\* points into reclaimed memory, every read is made with the owner not
\* reclaimed and yields the slice taken at construction ("Hello" through the
\* clones of hello, "World" through the clones of world), and each thread's
\* assert finds "Hello World" / "World Hello".
C5_ThreadedReadsValid ==
    /\ \A s \in Slots : IsRef(s) => ValidTarget(s)
    /\ ev.op = "deref" =>
            /\ reclaims["string"] = 0
            /\ ev.val = h[ev.slot].made
            /\ ev.val = IF ev.slot \in {"a.hello", "b.hello"}
                        THEN Chars(<<"H", "e", "l", "l", "o">>)
                        ELSE Chars(<<"W", "o", "r", "l", "d">>)
    /\ \A t \in Readers :
            /\ pc[t] # "panicked"
            /\ pc[t] \in {"exit", "done"} => out[t] = Expected(t)

\* Thread a reads its clone of world after thread c dropped the original
\* handle and thread b dropped both its clones.
C5_Witness ==
    /\ ev.op = "deref"
    /\ ev.slot = "a.world"
    /\ IsFree("arc")
    /\ pc["b"] = "done"
    /\ pc["c"] = "done"
    /\ strong["string"] = 4

(***************************************************************************)
(* Properties of SpecMultiple.                                             *)
(***************************************************************************)
\* C6: after one rc_multiple / arc_multiple run that derives a, b and c, and
\* with the original handle dropped, every read of a derived reference
\* yields its own field (42, 1024, "Foo"), whichever of the others were read
\* or dropped before; no assert fails and no reference points into
\* reclaimed memory.
C6_FieldsReadTheirOwn ==
    /\ \A s \in Slots : IsRef(s) => ValidTarget(s)
    /\ ev.op = "deref" =>
            /\ IsFree("foo")
            /\ reclaims["foo"] = 0
            /\ ev.val = Asserted(ev.slot)
    /\ \A t \in DOMAIN pc : pc[t] # -1

\* b is read by its thread after the original handle, a and c were dropped.
C6_Witness ==
    /\ kind = "Arc"
    /\ ev.op = "deref"
    /\ ev.slot = "b"
    /\ ev.val = <<[u32 |-> 1024]>>
    /\ IsFree("foo")
    /\ IsFree("a")
    /\ IsFree("c")
    /\ strong["foo"] = 1

(***************************************************************************)
(* Properties of SpecMarkers.                                              *)
(***************************************************************************)
\* C11: ArcReference<O, R> is Send exactly when Arc<O> is Send (O is Send
\* and Sync) and &R is Send (R is Sync), and is Sync exactly when Arc<O> is
\* Sync (O is Send and Sync) and &R is Sync (R is Sync), each decided on its
\* own; RcReference<O, R> is neither, whatever O and R are.
C11_MarkersByBounds ==
    \A t \in Markers :
        out[t] # "undecided" =>
            ((out[t] = "yes") <=>
                (kind = "Arc" /\ Markers \subseteq marks["O"] /\ "Sync" \in marks["R"]))

\* ArcReference<O, R> with O Send and Sync and R only Send (a Cell, say) is
\* refused both.
C11_Witness ==
    /\ kind = "Arc"
    /\ marks["O"] = Markers
    /\ marks["R"] = {"Send"}
    /\ out = [t \in Markers |-> "no"]

(***************************************************************************)
(* Properties of SpecFormat.                                               *)
(***************************************************************************)
\* The arguments of the format! that is running or has just returned.
FormatArguments == IF borrow.kind = "format" THEN borrow.args ELSE ev.args

\* What formatting the target itself gives for argument i: the fmt of its
\* trait on the slice the projection took at construction.
OfTarget(i) == TargetFmt(FormatArguments[i].trait, h[FormatArguments[i].slot].made)

\* C12: what Display or Debug of an owning reference writes is what the
\* same trait writes for its target, for either family: after the first
\* argument the text is the target's, after the second it is the two
\* targets' with the " " between.  With hello = [0..5], world = [6..11] and
\* "{hello} {world}" the text is "Hello World" and the assert passes.
C12_FormatsAsTarget ==
    /\ pc["main"] = 7 => out["main"] = OfTarget(1)
    /\ pc["main"] \in {8, 9} =>
            /\ out["main"] = OfTarget(1) \o <<" ">> \o OfTarget(2)
            /\ (/\ h["hello"].ptr = AddressOf("string", <<0, 5>>)
                /\ h["world"].ptr = AddressOf("string", <<6, 11>>)
                /\ \A i \in 1 .. 2 : FormatArguments[i].trait = "Display") =>
                    out["main"] = HelloWorldText
    /\ pc["main"] = -1 =>
            ~(/\ h["hello"].ptr = AddressOf("string", <<0, 5>>)
              /\ h["world"].ptr = AddressOf("string", <<6, 11>>)
              /\ \A i \in 1 .. 2 : ev.args[i].trait = "Display")

\* The test `rc` as written: "Hello World" was formatted through
\* RcReference and the assert has passed.
C12_Witness ==
    /\ kind = "Rc"
    /\ pc["main"] = 10
    /\ h["hello"].ptr = AddressOf("string", <<0, 5>>)
    /\ h["world"].ptr = AddressOf("string", <<6, 11>>)
    /\ \A i \in 1 .. 2 : ev.args[i].trait = "Display"
    /\ out["main"] = HelloWorldText

(***************************************************************************)
(* Properties of SpecRun.                                                  *)
(***************************************************************************)
\* C14: rc_multiple / arc_multiple calls the body once, with a context that
\* is a borrow of the handle and no handle of its own: building it and
\* discarding it change no count and no handle, and in the body and after
\* the return the count is its value before the run plus the number of
\* references the body derived and has not dropped.  What the run returns
\* is what the body kept, so a body that derives nothing or drops all it
\* derived leaves the count as it was.
C14_RunAddsOnlyDerived ==
    /\ [](pc["main"] \in {"body", "returned"} =>
            /\ out["main"].calls = 1
            /\ strong["string"] = out["main"].before + Cardinality(out["main"].minted)
            /\ \A r \in out["main"].minted : IsRef(r) /\ h[r].by = "new_reference"
            /\ out["main"].minted = {} => strong["string"] = out["main"].before)
    /\ [](pc["main"] = "returned" =>
            /\ ev.result = out["main"].minted
            /\ borrow = NoBorrow)
    /\ [][(pc["main"] # pc'["main"] /\ "body" \in {pc["main"], pc'["main"]}) =>
            /\ strong' = strong
            /\ h' = h
            /\ heap' = heap]_vars

\* A run has returned whose body derived two references and dropped the
\* first: the count is one above its value before the run.
C14_Witness ==
    /\ pc["main"] = "returned"
    /\ out["main"].before = 1
    /\ ev.result = {3}
    /\ IsFree(2)
    /\ strong["string"] = 2

(***************************************************************************)
(* Properties of SpecMoves.                                                *)
(***************************************************************************)
\* What the step leaves alone when it only reads.
ReadOnly ==
    /\ h' = h
    /\ strong' = strong
    /\ reclaims' = reclaims
    /\ heap' = heap

\* C15: a step that returns a read value (deref, as_ref, the fmt of Display
\* and Debug) and a step that lends the inner handle (source) change no
\* handle, no count and no memory; and over any step a reference either
\* stays where it is with the address it has, or is dropped (one count
\* fewer), or is moved with its address to another slot (no count changed):
\* its address is the same from construction to drop.
C15_ReadsChangeNothing ==
    /\ [][ev'.op = "deref" => ReadOnly]_vars
    /\ [][(borrow.kind = "none" /\ borrow'.kind = "source") => ReadOnly]_vars
    /\ [][h' # h => \A s \in Slots : IsRef(s) =>
            \/ h'[s].kind = "ref" /\ h'[s].ptr = h[s].ptr /\ h'[s].owner = h[s].owner
            \/ /\ h'[s].kind = "none"
               /\ strong'[h[s].owner] = strong[h[s].owner] - 1
               /\ \A x \in Slots \ {s} : h'[x] = h[x]
            \/ /\ h'[s].kind = "none"
               /\ strong' = strong
               /\ \E d \in Slots \ {s} :
                    /\ IsFree(d)
                    /\ h'[d] = h[s]
                    /\ \A x \in Slots \ {s, d} : h'[x] = h[x]]_vars

\* A reference is read while source() has lent its inner handle and a clone
\* of that handle is held.
C15_Witness ==
    /\ ev.op = "deref"
    /\ borrow = [kind |-> "source", slot |-> ev.slot]
    /\ ev.val = h[ev.slot].made
    /\ \E s \in Slots : IsPlain(s) /\ h[s].from = "source"

(***************************************************************************)
(* Properties of SpecSiblings.                                             *)
(***************************************************************************)
\* Steps on the reference in slot s: its drop, and its move to slot d.
DropStep(s) == IsRef(s) /\ ~IsBorrowed(s) /\ drop(s)
MoveStep(s, d) == IsRef(s) /\ ~IsBorrowed(s) /\ IsNextFree(d) /\ move(s, d)

\* The reference in slot x is as it was, and reads what it read.
Untouched(x) ==
    /\ h'[x] = h[x]
    /\ ReadOutcomes(x)' = ReadOutcomes(x)
    /\ ReadOutcomes(x) = {h[x].made}

\* C16: the drop, the clone or the move of a reference leaves every other
\* reference to the same owner, built by new or by new_reference, with its
\* address and its readable value; with another reference alive the step
\* changes nothing of the allocation but its count (not even that, for a
\* move).
C16_SiblingsUntouched ==
    [][h' # h =>
        \A s \in Slots : IsRef(s) =>
            /\ (h'[s].kind = "none" /\ DropStep(s)) =>
                    /\ \A x \in ReferencesTo(h[s].owner) \ {s} : Untouched(x)
                    /\ ReferencesTo(h[s].owner) # {s} => (heap' = heap /\ reclaims' = reclaims)
            /\ \A d \in Slots : (IsFree(d) /\ h'[d].kind = "ref" /\ CloneStep(s, d)) =>
                    /\ \A x \in ReferencesTo(h[s].owner) \ {s} : Untouched(x)
                    /\ heap' = heap
                    /\ reclaims' = reclaims
            /\ \A d \in Slots : (IsFree(d) /\ h'[d].kind = "ref" /\ MoveStep(s, d)) =>
                    /\ \A x \in ReferencesTo(h[s].owner) \ {s} : Untouched(x)
                    /\ heap' = heap
                    /\ reclaims' = reclaims
                    /\ strong' = strong]_vars

\* References built by new, by new_reference and by clone are alive
\* together, on different parts of the owner.
C16_Witness ==
    \E r, x, d \in Slots :
        /\ IsRef(r) /\ h[r].by = "new"
        /\ IsRef(x) /\ h[x].by = "new_reference"
        /\ IsRef(d) /\ h[d].by = "clone"
        /\ h[r].ptr # h[x].ptr
        /\ strong["string"] = 3

(***************************************************************************)
(* Properties of SpecScope.                                                *)
(***************************************************************************)
\* C18: no handle, reference or context keeps the allocation alive behind
\* the program's back: once the scope has ended, and whenever every plain
\* handle and every owning reference (built by new, by clone or by
\* new_reference) has been dropped, the owner allocation is eventually
\* reclaimed, and it is reclaimed once.
C18_EventuallyReclaimed ==
    /\ (pc["main"] = "exit") ~> (HandlesTo("string") = {} /\ reclaims["string"] = 1)
    /\ (HandlesTo("string") = {}) ~> (reclaims["string"] = 1)
    /\ [](reclaims["string"] <= 1)

\* The scope has ended and a clone and a reference minted through a context
\* are still to be dropped.
C18_Witness ==
    /\ pc["main"] = "exit"
    /\ strong["string"] = 2
    /\ reclaims["string"] = 0
    /\ \E r, x \in Slots :
            /\ IsRef(r) /\ h[r].by = "clone"
            /\ IsRef(x) /\ h[x].by = "new_reference"

====
